---- MODULE Spec2Model ----
(***************************************************************************)
(* Model of PersistentServiceClient<T>                                     *)
(* (include/ros_boosted_utilities/persistent_service_client.hpp).          *)
(*                                                                         *)
(* The wrapper owns one ros::ServiceClient (client_) and a node handle     *)
(* (nh_).  call() checks client_.isValid(); when the check fails it logs,  *)
(* replaces client_ by a fresh persistent client opened on the same name,  *)
(* waits for the service without timeout, logs again, and then dispatches  *)
(* client_.call().  The other members delegate to client_.                 *)
(*                                                                         *)
(* The transport is the environment: a service can appear and disappear,   *)
(* the link of the held client can be dropped, and the link of a client    *)
(* that was opened while the service was absent may or may not come up     *)
(* once the service appears.                                               *)
(***************************************************************************)
EXTENDS Integers, Sequences, FiniteSets, TLC

\* ---- bounds -------------------------------------------------------------
MaxConn == 3          \* connection objects created over a run
MaxTimeout == 1       \* largest finite timeout handed to waitForExistence

Names == {"E", "F"}   \* service names an instance can be constructed with
Threads == {1, 2}     \* callers of the one instance
Timeouts == (-1) .. MaxTimeout

VARIABLES
    endpoint,      \* service_name the instance was constructed with
    client,        \* client_ : the held ros::ServiceClient
    nextId,        \* identity given to the next connection nh_ creates
    available,     \* per service name: the service is advertised
    pc,            \* per caller: position inside the member it executes
    service_name,  \* per caller: local of call(), line 43
    timeout,       \* per caller: argument of waitForExistence
    elapsed,       \* per caller: time spent in waitForExistence
    events,        \* per caller: what the current/last call() did, in order
    entry,         \* per caller: client_ as it was when the member was entered
    ret,           \* per caller: last member that returned, and its value
    reported,      \* per caller: what client_'s wait and call reported inside call()
    own,           \* per caller: connection its call() checked valid or installed
    overlap,       \* a member was entered while another caller was inside one
    nodeOk         \* ros::ok(): the node has not been shut down

vars == <<endpoint, client, nextId, available, pc, service_name, timeout, elapsed,
          events, entry, ret, reported, own, overlap, nodeOk>>

\* ---- the connection object (ros::ServiceClient as used by the wrapper) ---
LinkStates == {"pending", "up", "down"}

Connection == [id : 1 .. (MaxConn + 8), name : Names,
               link : LinkStates, shut : BOOLEAN]

\* nh_.serviceClient<T>(name, true): returns at once; the persistent link is
\* up only when the service is advertised at that moment.
serviceClientAlwaysUp(id, name) ==
    [id |-> id, name |-> name, link |-> "up", shut |-> FALSE]
serviceClient(id, name) ==
    [id |-> id, name |-> name,
     link |-> IF available[name] /\ nodeOk THEN "up" ELSE "pending",
     shut |-> FALSE]

\* client_.isValid()
isValid(c) == c.link = "up" /\ ~c.shut

\* client_.getService()
getService(c) == c.name

\* client_.shutdown(): releases the link
shutdownBroken(c) == [c EXCEPT !.shut = ~c.shut, !.link = "down"]
shutdown(c) == [c EXCEPT !.shut = TRUE, !.link = "down"]

\* identity of the connection the assignment at line 46 installs: a new
\* object returned by nh_.serviceClient, not the old one modified
FreshIdReused == client.id
FreshId == nextId

\* name the replacement connection is opened against (line 46)
RebuildNameBroken(t) == CHOOSE n \in Names : n # service_name[t]
RebuildName(t) == service_name[t]

\* outcomes client_.call(service) can report on connection c (line 50)
ExchangeOutcomes(c) == IF isValid(c) THEN {"true", "false"} ELSE {"false"}

\* condition of the if at line 41
NeedsReconnectBroken(c) == TRUE
NeedsReconnectNever(c) == FALSE
NeedsReconnectUnlessShut(c) == ~isValid(c) /\ ~c.shut
NeedsReconnect(c) == ~isValid(c)

\* timeout of the wait at line 47: the default argument, negative
DefaultTimeout == -1

\* value c.waitForExistence(d) can return after e units of time, if any
WaitOutcomesBroken(c, d, e) ==
    IF available[c.name] THEN {"true"} ELSE {"false"}
WaitOutcomes(c, d, e) ==
    IF available[c.name] THEN {"true"}
    ELSE IF (d >= 0 /\ e >= d) \/ ~nodeOk THEN {"false"}
    ELSE {}

\* statement order of lines 45-50: position reached after the one at p
AfterBroken(p) ==
    CASE p = "warnLost" -> "rebuild"
      [] p = "rebuild" -> "warnRestored"
      [] p = "warnRestored" -> "wait"
      [] p = "wait" -> "dispatch"
      [] p = "dispatch" -> "inExchange"
AfterRechecks(p) ==
    CASE p = "warnLost" -> "rebuild"
      [] p = "rebuild" -> "wait"
      [] p = "wait" -> "warnRestored"
      [] p = "warnRestored" -> IF isValid(client) THEN "dispatch" ELSE "warnLost"
      [] p = "dispatch" -> "inExchange"
After(p) ==
    CASE p = "warnLost" -> "rebuild"
      [] p = "rebuild" -> "wait"
      [] p = "wait" -> "warnRestored"
      [] p = "warnRestored" -> "dispatch"
      [] p = "dispatch" -> "inExchange"

\* what call() returns given the value r reported by client_.call (line 50)
CallResultBroken(r) == "true"
CallResultNegated(r) == IF r = "true" THEN "false" ELSE "true"
CallResult(r) == r

\* position of the caller once client_.call has reported r (line 50)
AfterExchangeBroken(r) == IF r = "false" THEN "dispatch" ELSE "idle"
AfterExchange(r) == "idle"

Bool2Str(b) == IF b THEN "true" ELSE "false"

NoRet == [op |-> "none", val |-> "none"]

NoReport == [wait |-> "none", call |-> "none"]

\* position of the caller once the wait at line 47 has returned r: the value
\* is discarded
AfterWaitChecked(r) == IF r = "true" THEN After("wait") ELSE "dispatch"
AfterWait(r) == After("wait")

CallPcs == {"warnLost", "rebuild", "wait", "warnRestored", "dispatch",
            "inExchange"}

\* callers currently inside call()
InCall == {t \in Threads : pc[t] \in CallPcs}

\* another caller is inside a member of the instance
OthersInside(t) == \E u \in Threads \ {t} : pc[u] # "idle"

\* ---- construction -------------------------------------------------------
\* PersistentServiceClient(nh, service_name), lines 28-31
Init ==
    /\ nodeOk = TRUE
    /\ available \in [Names -> BOOLEAN]
    /\ endpoint \in Names
    /\ client = serviceClient(1, endpoint)
    /\ nextId = 2
    /\ pc = [t \in Threads |-> "idle"]
    /\ service_name = [t \in Threads |-> client.name]
    /\ timeout = [t \in Threads |-> -1]
    /\ elapsed = [t \in Threads |-> 0]
    /\ events = [t \in Threads |-> <<>>]
    /\ entry = [t \in Threads |-> client]
    /\ ret = [t \in Threads |-> NoRet]
    /\ reported = [t \in Threads |-> NoReport]
    /\ own = [t \in Threads |-> 0]
    /\ overlap = FALSE

\* ---- call(), lines 39-51 ------------------------------------------------
\* line 41 (and 43 on the reconnect path)
CallCheck(t) ==
    /\ pc[t] = "idle"
    /\ nextId + Cardinality(InCall) <= MaxConn
    /\ entry' = [entry EXCEPT ![t] = client]
    /\ events' = [events EXCEPT ![t] = <<>>]
    /\ ret' = [ret EXCEPT ![t] = NoRet]
    /\ IF NeedsReconnect(client)
         THEN /\ pc' = [pc EXCEPT ![t] = "warnLost"]
              /\ service_name' = [service_name EXCEPT ![t] = getService(client)]
         ELSE /\ pc' = [pc EXCEPT ![t] = "dispatch"]
              /\ UNCHANGED service_name
    /\ reported' = [reported EXCEPT ![t] = NoReport]
    /\ own' = [own EXCEPT ![t] = IF NeedsReconnect(client) THEN 0 ELSE client.id]
    /\ overlap' = (overlap \/ OthersInside(t))
    /\ UNCHANGED <<nodeOk>>
    /\ UNCHANGED <<endpoint, client, nextId, available, timeout, elapsed>>

\* line 45
CallWarnLost(t) ==
    /\ pc[t] = "warnLost"
    /\ events' = [events EXCEPT ![t] = Append(@, "lost")]
    /\ pc' = [pc EXCEPT ![t] = After("warnLost")]
    /\ UNCHANGED <<reported, own, overlap, nodeOk>>
    /\ UNCHANGED <<endpoint, client, nextId, available, service_name, timeout, elapsed,
                   entry, ret>>

\* line 46
CallRebuild(t) ==
    /\ pc[t] = "rebuild"
    /\ client' = serviceClient(FreshId, RebuildName(t))
    /\ nextId' = nextId + 1
    /\ events' = [events EXCEPT ![t] = Append(@, "rebuild")]
    /\ pc' = [pc EXCEPT ![t] = After("rebuild")]
    /\ own' = [own EXCEPT ![t] = client'.id]
    /\ UNCHANGED <<reported, overlap, nodeOk>>
    /\ UNCHANGED <<endpoint, available, service_name, timeout, elapsed, entry,
                   ret>>

\* line 47: client_.waitForExistence() with the default, negative timeout
CallWait(t) ==
    /\ pc[t] = "wait"
    /\ \E r \in WaitOutcomes(client, DefaultTimeout, 0) :
          /\ reported' = [reported EXCEPT ![t].wait = r]
          /\ pc' = [pc EXCEPT ![t] = AfterWait(r)]
    /\ events' = [events EXCEPT ![t] = Append(@, "waited")]
    /\ UNCHANGED <<own, overlap, nodeOk>>
    /\ UNCHANGED <<endpoint, client, nextId, available, service_name, timeout, elapsed,
                   entry, ret>>

\* line 48
CallWarnRestored(t) ==
    /\ pc[t] = "warnRestored"
    /\ events' = [events EXCEPT ![t] = Append(@, "restored")]
    /\ pc' = [pc EXCEPT ![t] = After("warnRestored")]
    /\ UNCHANGED <<reported, own, overlap, nodeOk>>
    /\ UNCHANGED <<endpoint, client, nextId, available, service_name, timeout, elapsed,
                   entry, ret>>

\* line 50: client_.call(service) is entered
CallDispatch(t) ==
    /\ pc[t] = "dispatch"
    /\ events' = [events EXCEPT ![t] = Append(@, "dispatch")]
    /\ pc' = [pc EXCEPT ![t] = After("dispatch")]
    /\ UNCHANGED <<reported, own, overlap, nodeOk>>
    /\ UNCHANGED <<endpoint, client, nextId, available, service_name, timeout, elapsed,
                   entry, ret>>

\* line 50: client_.call(service) reports, and call() returns that value
CallReturn(t) ==
    /\ pc[t] = "inExchange"
    /\ \E r \in ExchangeOutcomes(client) :
          /\ ret' = [ret EXCEPT ![t] = [op |-> "call", val |-> CallResult(r)]]
          /\ reported' = [reported EXCEPT ![t].call = r]
          /\ pc' = [pc EXCEPT ![t] = AfterExchange(r)]
    /\ UNCHANGED <<own, overlap, nodeOk>>
    /\ UNCHANGED <<endpoint, client, nextId, available, service_name, timeout, elapsed,
                   events, entry>>

\* ---- waitForExistence(timeout), lines 57-60 -------------------------------
WaitForExistenceEnterBroken(t) ==
    /\ pc[t] = "idle"
    /\ nextId <= MaxConn
    /\ \E d \in Timeouts : timeout' = [timeout EXCEPT ![t] = d]
    /\ elapsed' = [elapsed EXCEPT ![t] = 0]
    /\ entry' = [entry EXCEPT ![t] = client]
    /\ ret' = [ret EXCEPT ![t] = NoRet]
    /\ client' = serviceClient(nextId, getService(client))
    /\ nextId' = nextId + 1
    /\ pc' = [pc EXCEPT ![t] = "waitForExistence"]
    /\ overlap' = (overlap \/ OthersInside(t))
    /\ UNCHANGED <<reported, own, nodeOk>>
    /\ UNCHANGED <<endpoint, available, service_name, events>>

WaitForExistenceEnter(t) ==
    /\ pc[t] = "idle"
    /\ \E d \in Timeouts : timeout' = [timeout EXCEPT ![t] = d]
    /\ elapsed' = [elapsed EXCEPT ![t] = 0]
    /\ entry' = [entry EXCEPT ![t] = client]
    /\ ret' = [ret EXCEPT ![t] = NoRet]
    /\ pc' = [pc EXCEPT ![t] = "waitForExistence"]
    /\ overlap' = (overlap \/ OthersInside(t))
    /\ UNCHANGED <<reported, own, nodeOk>>
    /\ UNCHANGED <<endpoint, client, nextId, available, service_name, events>>

WaitForExistenceReturn(t) ==
    /\ pc[t] = "waitForExistence"
    /\ \E r \in WaitOutcomes(client, timeout[t], elapsed[t]) :
          ret' = [ret EXCEPT ![t] = [op |-> "waitForExistence", val |-> r]]
    /\ pc' = [pc EXCEPT ![t] = "idle"]
    /\ UNCHANGED <<reported, own, overlap, nodeOk>>
    /\ UNCHANGED <<endpoint, client, nextId, available, service_name, timeout, elapsed,
                   events, entry>>

\* ---- isValid(), lines 65-68 -----------------------------------------------
IsValidCached(t) ==
    /\ pc[t] = "idle"
    /\ entry' = [entry EXCEPT ![t] = client]
    /\ ret' = [ret EXCEPT ![t] = [op |-> "isValid",
                                  val |-> Bool2Str(isValid(entry[t]))]]
    /\ overlap' = (overlap \/ OthersInside(t))
    /\ UNCHANGED <<reported, own, nodeOk>>
    /\ UNCHANGED <<endpoint, client, nextId, available, pc, service_name, timeout,
                   elapsed, events>>

IsValidReconnects(t) ==
    /\ pc[t] = "idle"
    /\ entry' = [entry EXCEPT ![t] = client]
    /\ ret' = [ret EXCEPT ![t] = [op |-> "isValid",
                                  val |-> Bool2Str(isValid(client))]]
    /\ IF ~isValid(client) /\ client.id # 0 /\ nextId <= MaxConn
         THEN /\ client' = serviceClient(nextId, getService(client))
              /\ nextId' = nextId + 1
         ELSE UNCHANGED <<client, nextId>>
    /\ overlap' = (overlap \/ OthersInside(t))
    /\ UNCHANGED <<reported, own, nodeOk>>
    /\ UNCHANGED <<endpoint, available, pc, service_name, timeout, elapsed,
                   events>>

IsValid(t) ==
    /\ pc[t] = "idle"
    /\ entry' = [entry EXCEPT ![t] = client]
    /\ ret' = [ret EXCEPT ![t] = [op |-> "isValid",
                                  val |-> Bool2Str(isValid(client))]]
    /\ overlap' = (overlap \/ OthersInside(t))
    /\ UNCHANGED <<reported, own, nodeOk>>
    /\ UNCHANGED <<endpoint, client, nextId, available, pc, service_name, timeout,
                   elapsed, events>>

\* ---- shutdown(), lines 73-76 ----------------------------------------------
Shutdown(t) ==
    /\ pc[t] = "idle"
    /\ entry' = [entry EXCEPT ![t] = client]
    /\ client' = shutdown(client)
    /\ ret' = [ret EXCEPT ![t] = [op |-> "shutdown", val |-> "void"]]
    /\ overlap' = (overlap \/ OthersInside(t))
    /\ UNCHANGED <<reported, own, nodeOk>>
    /\ UNCHANGED <<endpoint, nextId, available, pc, service_name, timeout, elapsed,
                   events>>

\* ---- getService(), lines 82-85 --------------------------------------------
GetService(t) ==
    /\ pc[t] = "idle"
    /\ entry' = [entry EXCEPT ![t] = client]
    /\ ret' = [ret EXCEPT ![t] = [op |-> "getService",
                                  val |-> getService(client)]]
    /\ overlap' = (overlap \/ OthersInside(t))
    /\ UNCHANGED <<reported, own, nodeOk>>
    /\ UNCHANGED <<endpoint, client, nextId, available, pc, service_name, timeout,
                   elapsed, events>>

\* ---- the transport ------------------------------------------------------
\* the service named n is advertised
EndpointUp(n) ==
    /\ ~available[n]
    /\ available' = [available EXCEPT ![n] = TRUE]
    /\ UNCHANGED <<reported, own, overlap, nodeOk>>
    /\ UNCHANGED <<endpoint, client, nextId, pc, service_name, timeout, elapsed,
                   events, entry, ret>>

\* the service named n goes away; a link to it is dropped
EndpointDown(n) ==
    /\ available[n]
    /\ available' = [available EXCEPT ![n] = FALSE]
    /\ client' = IF client.name = n /\ client.link = "up"
                   THEN [client EXCEPT !.link = "down"] ELSE client
    /\ UNCHANGED <<reported, own, overlap, nodeOk>>
    /\ UNCHANGED <<endpoint, nextId, pc, service_name, timeout, elapsed, events,
                   entry, ret>>

\* the link of the held connection is dropped, the service stays advertised
Sever ==
    /\ client.link = "up"
    /\ client' = [client EXCEPT !.link = "down"]
    /\ UNCHANGED <<reported, own, overlap, nodeOk>>
    /\ UNCHANGED <<endpoint, nextId, available, pc, service_name, timeout, elapsed,
                   events, entry, ret>>

\* the link of a connection opened before the service existed comes up
Establish ==
    /\ client.link = "pending"
    /\ ~client.shut
    /\ nodeOk
    /\ available[client.name]
    /\ client' = [client EXCEPT !.link = "up"]
    /\ UNCHANGED <<reported, own, overlap, nodeOk>>
    /\ UNCHANGED <<endpoint, nextId, available, pc, service_name, timeout, elapsed,
                   events, entry, ret>>

\* time passes for a caller inside waitForExistence with a finite timeout
Tick(t) ==
    /\ pc[t] = "waitForExistence"
    /\ timeout[t] >= 0
    /\ elapsed[t] < timeout[t]
    /\ elapsed' = [elapsed EXCEPT ![t] = @ + 1]
    /\ UNCHANGED <<reported, own, overlap, nodeOk>>
    /\ UNCHANGED <<endpoint, client, nextId, available, pc, service_name, timeout,
                   events, entry, ret>>

\* what the transport does on its own
Transport ==
    \/ \E n \in Names : EndpointUp(n)
    \/ \E n \in Names : EndpointDown(n)
    \/ Sever
    \/ Establish

Environment ==
    \/ Transport
    \/ \E t \in Threads : Tick(t)

\* ---- specifications -----------------------------------------------------
Member(t) ==
    \/ CallCheck(t)
    \/ CallWarnLost(t)
    \/ CallRebuild(t)
    \/ CallWait(t)
    \/ CallWarnRestored(t)
    \/ CallDispatch(t)
    \/ CallReturn(t)
    \/ WaitForExistenceEnter(t)
    \/ WaitForExistenceReturn(t)
    \/ IsValid(t)
    \/ Shutdown(t)
    \/ GetService(t)

\* the documented usage: one owner invokes the members one after the other
Owner == 1

Next ==
    \/ Member(Owner)
    \/ Environment

Spec == Init /\ [][Next]_vars

\* ---- node shutdown ---------------------------------------------------------
\* the node is shut down while the instance is in use: links are closed and a
\* wait for a service gives up, returning false
NodeShutdown ==
    /\ nodeOk
    /\ nodeOk' = FALSE
    /\ client' = IF client.link = "up"
                   THEN [client EXCEPT !.link = "down"] ELSE client
    /\ UNCHANGED <<reported, own, overlap>>
    /\ UNCHANGED <<endpoint, nextId, available, pc, service_name, timeout,
                   elapsed, events, entry, ret>>

NextNode ==
    \/ Next
    \/ NodeShutdown

SpecNode == Init /\ [][NextNode]_vars

\* ---- default construction, line 21 --------------------------------------
\* the ros::ServiceClient of a default-constructed instance: no connection,
\* no name
DefaultClient == [id |-> 0, name |-> "", link |-> "down", shut |-> FALSE]

\* PersistentServiceClient() = default
InitDefault ==
    /\ available \in [Names -> BOOLEAN]
    /\ endpoint = ""
    /\ client = DefaultClient
    /\ nextId = 1
    /\ pc = [t \in Threads |-> "idle"]
    /\ service_name = [t \in Threads |-> client.name]
    /\ timeout = [t \in Threads |-> -1]
    /\ elapsed = [t \in Threads |-> 0]
    /\ events = [t \in Threads |-> <<>>]
    /\ entry = [t \in Threads |-> client]
    /\ ret = [t \in Threads |-> NoRet]
    /\ reported = [t \in Threads |-> NoReport]
    /\ own = [t \in Threads |-> 0]
    /\ overlap = FALSE
    /\ nodeOk = TRUE

\* a constructed PersistentServiceClient(nh, n) is assigned to the
\* default-constructed instance (lines 19-21 and 28-31)
Assign(n) ==
    /\ client = DefaultClient
    /\ \A t \in Threads : pc[t] = "idle"
    /\ endpoint' = n
    /\ client' = serviceClient(nextId, n)
    /\ nextId' = nextId + 1
    /\ UNCHANGED <<reported, own, overlap, nodeOk>>
    /\ UNCHANGED <<available, pc, service_name, timeout, elapsed, events,
                   entry, ret>>

\* before the assignment only the queries are used; afterwards the instance
\* is used as a constructed one
NextDefault ==
    \/ client = DefaultClient /\ (IsValid(Owner) \/ GetService(Owner))
    \/ \E n \in Names : Assign(n)
    \/ client # DefaultClient /\ Member(Owner)
    \/ Environment

SpecDefault == InitDefault /\ [][NextDefault]_vars

\* the statements of call() after the check at line 41
CallSteps(t) ==
    \/ CallWarnLost(t)
    \/ CallRebuild(t)
    \/ CallWait(t)
    \/ CallWarnRestored(t)
    \/ CallDispatch(t)
    \/ CallReturn(t)

\* the instance shared by several callers without external serialization:
\* their call() and shutdown() interleave statement by statement
NextShared ==
    \/ \E t \in Threads : CallCheck(t) \/ CallSteps(t) \/ Shutdown(t)
    \/ Transport

SpecShared == Init /\ [][NextShared]_vars

\* the owner's thread keeps running: a call() that can take its next step
\* eventually takes it.  Nothing is assumed of the transport.
SpecLive == Init /\ [][Next]_vars /\ WF_vars(CallSteps(Owner))

TypeOK ==
    /\ endpoint \in Names
    /\ client \in Connection
    /\ nextId \in 2 .. (MaxConn + 8)
    /\ available \in [Names -> BOOLEAN]
    /\ pc \in [Threads -> CallPcs \cup {"idle", "waitForExistence"}]
    /\ service_name \in [Threads -> Names]
    /\ timeout \in [Threads -> Timeouts]
    /\ elapsed \in [Threads -> 0 .. (MaxTimeout + 8)]
\* ---- properties ---------------------------------------------------------
Count(seq, e) == Cardinality({i \in DOMAIN seq : seq[i] = e})

\* the step by which caller t returns from call()
CallReturns(t) == pc[t] = "inExchange" /\ pc'[t] = "idle"

\* C1 (P4): whenever an invocation of call() proceeds to the dispatch of
\* client_.call, the held connection reports valid at that moment: it was
\* just confirmed valid, by the check or by the completed reconnect.
P4_NoCallWithoutValidity ==
    [][\A t \in Threads :
          (pc[t] # "dispatch" /\ pc'[t] = "dispatch") => isValid(client')]_vars

\* C2 as stated: at every return of call(), with true or with false, the held
\* connection reports valid.
ReturnStateValid ==
    [][\A t \in Threads : CallReturns(t) => isValid(client')]_vars

\* C2, amended: at every return of call() with true, the held connection
\* reports valid; a return with false can leave it invalid.
ReturnTrueStateValid ==
    [][\A t \in Threads :
          (CallReturns(t) /\ ret'[t].val = "true") => isValid(client')]_vars

ReturnTrueStateValid_witness ==
    /\ ret[Owner] = [op |-> "call", val |-> "true"]
    /\ pc[Owner] = "idle"
    /\ isValid(client)
    /\ client.id > 1

\* C3 (P5): an invocation of call() that has returned dispatched the exchange
\* exactly once, and the dispatch is the last thing it did: no second
\* dispatch and no rebuild follow it, also when the exchange reported failure.
P5_FailedExchangeNotRetried ==
    \A t \in Threads :
        ret[t].op = "call" =>
            /\ Count(events[t], "dispatch") = 1
            /\ events[t][Len(events[t])] = "dispatch"
            /\ pc[t] = "idle"

P5_FailedExchangeNotRetried_witness ==
    /\ ret[Owner] = [op |-> "call", val |-> "false"]
    /\ isValid(client)
    /\ events[Owner] = <<"dispatch">>

\* C4 (P3): the held connection is always one opened against the name the
\* instance was constructed with, the name call() captured for the rebuild is
\* that name, and getService() returns it, also after reconnects.
P3_EndpointIdentityPreserved ==
    /\ getService(client) = endpoint
    /\ \A t \in Threads :
          /\ pc[t] \in {"warnLost", "rebuild", "wait", "warnRestored"}
                => service_name[t] = endpoint
          /\ ret[t].op = "getService" => ret[t].val = endpoint

P3_EndpointIdentityPreserved_witness ==
    /\ ret[Owner] = [op |-> "getService", val |-> endpoint]
    /\ client.id = 3
    /\ client.shut

\* C5 (P1): shutdown() on an instance whose connection is already shut down
\* changes nothing: a second shutdown() leaves the state the first one left
\* (same connection object, invalid, same name).
ShutdownActs(t) ==
    /\ pc[t] = "idle" /\ pc'[t] = "idle"
    /\ ret'[t].op = "shutdown"
    /\ entry'[t] = client

P1_ShutdownIdempotent ==
    [][\A t \in Threads :
          (ShutdownActs(t) /\ client.shut) =>
              /\ client' = client
              /\ ~isValid(client')
              /\ getService(client') = endpoint]_vars

P1_ShutdownIdempotent_witness ==
    /\ ret[Owner].op = "shutdown"
    /\ entry[Owner].shut
    /\ client = entry[Owner]
    /\ ~isValid(client)
\* C6 (scenario B): an invocation of call() entered on an invalid connection
\* does, in this order and each once: the 'lost' diagnostic, the replacement
\* of the held connection, the wait, the 'restored' diagnostic, the dispatch;
\* at every point what it has done is a prefix of that order, so 'restored'
\* never precedes the end of the wait, and at return it has done all five.
ReconnectOrder == <<"lost", "rebuild", "waited", "restored", "dispatch">>

IsPrefix(s, r) ==
    /\ Len(s) <= Len(r)
    /\ \A i \in 1 .. Len(s) : s[i] = r[i]

ScenarioB_ReconnectOrder ==
    \A t \in Threads :
        ((pc[t] \in CallPcs \/ ret[t].op = "call") /\ ~isValid(entry[t])) =>
            /\ IsPrefix(events[t], ReconnectOrder)
            /\ pc[t] = "warnRestored" => events[t] = SubSeq(ReconnectOrder, 1, 3)
            /\ pc[t] = "dispatch" => events[t] = SubSeq(ReconnectOrder, 1, 4)
            /\ ret[t].op = "call" => events[t] = ReconnectOrder

ScenarioB_ReconnectOrder_witness ==
    /\ ret[Owner] = [op |-> "call", val |-> "true"]
    /\ ~isValid(entry[Owner])
    /\ events[Owner] = ReconnectOrder
    /\ client.id = entry[Owner].id + 1

RecoveryLiveness ==
    []((/\ pc[Owner] = "wait"
        /\ <>[](available[endpoint])
        /\ [](client.link # "down"))
          => <>(pc[Owner] = "dispatch" /\ isValid(client)
                   /\ <>(pc[Owner] = "idle")))

\* C9 (scenario E): during waitForExistence(timeout), from entry to return,
\* the held connection object, its name and its released flag do not change;
\* it returns false only with a non-negative timeout that has elapsed while
\* the endpoint is not available, and it returns true only while the endpoint
\* is available, so a negative timeout returns only on availability.
WaitForExistenceReturns(t) == pc[t] = "waitForExistence" /\ pc'[t] = "idle"

ScenarioA_FastPath ==
    \A t \in Threads :
        ((pc[t] \in CallPcs \/ ret[t].op = "call") /\ isValid(entry[t])) =>
            /\ client.id = entry[t].id
            /\ pc[t] \in {"dispatch", "inExchange", "idle"}
            /\ pc[t] = "dispatch" => events[t] = <<>>
            /\ pc[t] \in {"inExchange", "idle"} => events[t] = <<"dispatch">>

ScenarioA_FastPath_witness ==
    /\ ret[Owner] = [op |-> "call", val |-> "true"]
    /\ isValid(entry[Owner])
    /\ client = entry[Owner]
    /\ events[Owner] = <<"dispatch">>
\* C11: the value call() returns is the value its one dispatched exchange
\* reported, on the fast path and after a reconnect alike; before the exchange
\* has reported, call() has not returned, so a lost connection alone never
\* yields false.
ResultIsExchangeFlag ==
    \A t \in Threads :
        /\ ret[t].op = "call" =>
              /\ ret[t].val = reported[t].call
              /\ ret[t].val \in {"true", "false"}
              /\ Count(events[t], "dispatch") = 1
        /\ pc[t] \in CallPcs =>
              /\ ret[t] = NoRet
              /\ reported[t].call = "none"

ResultIsExchangeFlag_witness ==
    /\ ret[Owner] = [op |-> "call", val |-> "true"]
    /\ reported[Owner].call = "true"
    /\ events[Owner] = ReconnectOrder
    /\ ~isValid(entry[Owner])
    /\ pc[Owner] = "idle"
\* the step by which caller t executes isValid()
IsValidActs(t) ==
    /\ pc[t] = "idle" /\ pc'[t] = "idle"
    /\ ret'[t].op = "isValid"
    /\ (ret'[t] # ret[t] \/ entry'[t] # entry[t])

\* C12 (P2): the step that severs the link of the held connection leaves it
\* reporting invalid; isValid() returns the validity the held connection has
\* at that moment, not an earlier one; and when call() has installed a fresh
\* connection and its exchange succeeded, the held connection reports valid.
P2_ValidityReflectsTransport ==
    [][/\ (client.link = "up" /\ client'.link = "down") => ~isValid(client')
       /\ \A t \in Threads :
             /\ IsValidActs(t) =>
                   /\ ret'[t].val = Bool2Str(isValid(client))
                   /\ client' = client
             /\ (CallReturns(t) /\ ret'[t].val = "true"
                     /\ Count(events[t], "rebuild") = 1) =>
                   /\ isValid(client')
                   /\ client'.id # entry[t].id]_vars

P2_ValidityReflectsTransport_witness ==
    /\ ret[Owner] = [op |-> "isValid", val |-> "false"]
    /\ entry[Owner] = client
    /\ client.link = "down"
    /\ ~client.shut
    /\ client.id > 1
    /\ available[endpoint]
\* C13: the instance holds one connection, always the newest one created for
\* it, so a replaced connection is never held again; a reconnect installs a
\* connection with a new identity; and the wait and the exchange of a call()
\* run on the held connection, the one that call() checked or installed.
ExclusiveOwnership ==
    /\ client.id = nextId - 1
    /\ \A t \in Threads :
          /\ pc[t] \in {"wait", "warnRestored", "dispatch", "inExchange"} =>
                own[t] = client.id
          /\ ((pc[t] \in CallPcs \/ ret[t].op = "call")
                  /\ Count(events[t], "rebuild") = 1) =>
                /\ own[t] > entry[t].id
                /\ client.id = own[t]

ExclusiveOwnership_witness ==
    /\ pc[Owner] = "inExchange"
    /\ Count(events[Owner], "rebuild") = 1
    /\ own[Owner] = client.id
    /\ client.id = entry[Owner].id + 1
    /\ client.id = 3
\* C14: shutdown() can be invoked whenever the owner is outside a member,
\* on a valid and on an invalid connection alike; a connection object that
\* has been shut down stays shut down and invalid for as long as it is held,
\* whatever happens, and no exchange is dispatched or in progress on it.
ShutdownIsTerminal ==
    [][/\ (client.shut /\ client'.id = client.id) =>
              (client'.shut /\ ~isValid(client'))
       /\ pc[Owner] = "idle" => ENABLED Shutdown(Owner)
       /\ \A t \in Threads :
             /\ (pc[t] = "dispatch" /\ pc'[t] = "inExchange") => ~client.shut
             /\ pc'[t] = "inExchange" => ~client'.shut]_vars

ShutdownIsTerminal_witness ==
    /\ client.shut
    /\ ~isValid(client)
    /\ ret[Owner] = [op |-> "waitForExistence", val |-> "true"]
    /\ entry[Owner] = client
    /\ available[endpoint]
\* caller t has an exchange in progress on a connection that is not the one
\* its call() checked valid or installed, or on one that has been shut down
UnconfirmedDispatch(t) ==
    /\ pc[t] = "inExchange"
    /\ (client.id # own[t] \/ client.shut)

\* two callers each replaced the connection for the same lost connection
DoubleRebuild ==
    \E t \in Threads : \E u \in Threads \ {t} :
        /\ pc[t] \in CallPcs \/ ret[t].op = "call"
        /\ pc[u] \in CallPcs \/ ret[u].op = "call"
        /\ Count(events[t], "rebuild") = 1
        /\ Count(events[u], "rebuild") = 1
        /\ entry[t].id = entry[u].id

\* C15: on an instance shared by two callers, an exchange on a connection the
\* dispatching caller did not confirm, or two rebuilds for one loss, occur
\* only when a member was entered while another caller was inside one; with
\* one member at a time neither occurs.  The interleaving that produces both
\* is reachable.
UnsynchronisedSharingUnsafe ==
    ((\E t \in Threads : UnconfirmedDispatch(t)) \/ DoubleRebuild) => overlap

UnsynchronisedSharingUnsafe_witness ==
    /\ overlap
    /\ DoubleRebuild
    /\ \E t \in Threads :
          /\ pc[t] = "inExchange"
          /\ client.id # own[t]
          /\ Count(events[t], "rebuild") = 1
\* the held connection is the one the constructor opened, not yet severed or
\* shut down
ConstructedConnection == client.id = 1 /\ ~client.shut /\ client.link # "down"

\* C16 as stated: the connection the constructor opened is invalid exactly
\* while the service is absent, so it reports valid as soon as the service
\* has appeared.
ConstructedInvalidExactlyWhileAbsent ==
    ConstructedConnection => (isValid(client) <=> available[endpoint])

\* C16, amended: right after construction nobody is blocked, the instance is
\* bound to the given name, and its connection is valid exactly when the
\* service is advertised at that moment; afterwards the constructor's
\* connection keeps that name and is invalid while the service is absent, and
\* one that was opened before the service appeared is invalid until its link
\* comes up, which can be later than the service's appearance.
EagerConstruction ==
    /\ \A t \in Threads : pc[t] = "idle"
    /\ getService(client) = endpoint
    /\ isValid(client) <=> available[endpoint]
    /\ [](ConstructedConnection =>
             /\ getService(client) = endpoint
             /\ ~available[endpoint] => ~isValid(client)
             /\ client.link = "pending" => ~isValid(client))

EagerConstruction_witness ==
    /\ ConstructedConnection
    /\ client.link = "pending"
    /\ available[endpoint]
    /\ ret[Owner] = [op |-> "isValid", val |-> "false"]
    /\ entry[Owner] = client
\* the step by which caller t executes isValid() or getService()
QueryActs(t) ==
    /\ pc[t] = "idle"
    /\ ret'[t].op \in {"isValid", "getService"}
    /\ (ret'[t] # ret[t] \/ entry'[t] # entry[t])

\* C17: isValid() and getService() return in the step that invokes them and
\* change neither the held connection, nor the name, nor what the node handle
\* has created, nor anybody's position; isValid() reports the held
\* connection's validity without replacing it, and getService() on a
\* default-constructed, never assigned instance returns the empty name.
QueriesArePure ==
    [][\A t \in Threads :
          QueryActs(t) =>
              /\ client' = client
              /\ endpoint' = endpoint
              /\ nextId' = nextId
              /\ available' = available
              /\ pc' = pc
              /\ events' = events
              /\ ret'[t].op = "isValid" =>
                    ret'[t].val = Bool2Str(isValid(client))
              /\ ret'[t].op = "getService" =>
                    /\ ret'[t].val = getService(client)
                    /\ client = DefaultClient => ret'[t].val = ""]_vars

QueriesArePure_witness ==
    /\ client = DefaultClient
    /\ endpoint = ""
    /\ ret[Owner] = [op |-> "getService", val |-> ""]
    /\ pc[Owner] = "idle"
\* C18: one invocation of call() logs the loss, replaces the connection and
\* waits at most once each; once it has replaced the connection it never
\* goes back before the wait, and from the 'restored' diagnostic it goes on
\* to the dispatch without looking at the connection again, valid or not.
OneRepairPerInvocation ==
    [][\A t \in Threads :
          /\ Count(events'[t], "lost") <= 1
          /\ Count(events'[t], "rebuild") <= 1
          /\ Count(events'[t], "waited") <= 1
          /\ pc[t] \in {"wait", "warnRestored", "dispatch", "inExchange"} =>
                pc'[t] \notin {"warnLost", "rebuild"}
          /\ (pc[t] = "wait" /\ pc'[t] # "wait") => pc'[t] = "warnRestored"
          /\ (pc[t] = "warnRestored" /\ pc'[t] # "warnRestored") =>
                /\ pc'[t] = "dispatch"
                /\ client' = client]_vars

OneRepairPerInvocation_witness ==
    /\ pc[Owner] = "dispatch"
    /\ events[Owner] = <<"lost", "rebuild", "waited", "restored">>
    /\ ~isValid(client)
    /\ client.id = own[Owner]
\* C19: a call() entered on a connection that was shut down finds it invalid
\* and takes the reconnect path: once it has rebuilt, the held connection is
\* a new one, not shut down, opened against the same name; it waits on it and
\* dispatches on it, and at return it has done the whole reconnect cycle.
CallAfterShutdownReopens ==
    \A t \in Threads :
        ((pc[t] \in CallPcs \/ ret[t].op = "call") /\ entry[t].shut) =>
            /\ ~isValid(entry[t])
            /\ IsPrefix(events[t], ReconnectOrder)
            /\ pc[t] \in {"dispatch", "inExchange", "idle"} =>
                  Count(events[t], "waited") = 1
            /\ Count(events[t], "rebuild") = 1 =>
                  /\ client.id > entry[t].id
                  /\ ~client.shut
                  /\ getService(client) = getService(entry[t])
            /\ ret[t].op = "call" => events[t] = ReconnectOrder

CallAfterShutdownReopens_witness ==
    /\ ret[Owner] = [op |-> "call", val |-> "true"]
    /\ entry[Owner].shut
    /\ client.id = entry[Owner].id + 1
    /\ isValid(client)
    /\ events[Owner] = ReconnectOrder
\* C20: whatever client_.waitForExistence() returns at line 47, true or
\* false, call() does not look at it: it leaves the held connection as it
\* is, emits the 'restored' diagnostic next and then dispatches the exchange
\* on the connection it rebuilt.
WaitOutcomeIgnored ==
    [][\A t \in Threads :
          /\ (pc[t] = "wait" /\ pc'[t] # "wait") =>
                /\ reported'[t].wait \in {"true", "false"}
                /\ pc'[t] = "warnRestored"
                /\ client' = client
          /\ (pc[t] = "warnRestored" /\ pc'[t] # "warnRestored") =>
                /\ reported[t].wait \in {"true", "false"}
                /\ events'[t] = Append(events[t], "restored")
                /\ pc'[t] = "dispatch"
          /\ (pc[t] = "dispatch" /\ pc'[t] # "dispatch"
                  /\ reported[t].wait # "none") =>
                /\ events'[t] = ReconnectOrder
                /\ pc'[t] = "inExchange"
                /\ client.id = own[t]
                /\ client.id > entry[t].id]_vars

WaitOutcomeIgnored_witness ==
    /\ pc[Owner] = "inExchange"
    /\ reported[Owner].wait = "false"
    /\ events[Owner] = ReconnectOrder
    /\ ~available[endpoint]
    /\ client.id = own[Owner]
====
